---- MODULE Spec2Model ----
(***************************************************************************)
(* Model of ecco_v4_py/calc_section_trsp.py: transport of volume, heat,    *)
(* salt and freshwater across a section of the ECCO v4 grid.               *)
(*                                                                         *)
(* The grid of the model is one tile with one row of NI cells, NK depth    *)
(* levels and NT time steps.  A field is indexed fld[t][k][i]; a section   *)
(* mask is indexed mask[i]; a wet-point mask is indexed wet[k][i].         *)
(*                                                                         *)
(* Numbers are IEEE 754 binary64 values, as the arrays of the program hold *)
(* them: every operation rounds as the processor does.                     *)
(***************************************************************************)
EXTENDS Integers, Sequences, FiniteSets, TLC

VARIABLES
    op,             \* the function the caller invokes
    pc,             \* "call" before the invocation, "done" after it
    ds,             \* the caller's dataset: field name -> field
    coords,         \* the coordinate bundle
    pt1, pt2,       \* section end points or None
    section_name,   \* section name or NoName
    maskC, maskW, maskS,   \* section masks or None
    grid,           \* the xgcm grid object or NoGrid
    sign,           \* "positive", "negative" or NoSign
    along_section,  \* BOOLEAN
    Sref,           \* reference salinity (a value)
    xfld, yfld,     \* flux fields handed to section_trsp_at_depth
    err,            \* the exception the call raised, or NoErr
    ret,            \* the value the call returned, or None
    lm_calls        \* the calls of get_section_line_masks, in order

vars == <<op, pc, ds, coords, pt1, pt2, section_name, maskC, maskW, maskS,
          grid, sign, along_section, Sref, xfld, yfld, err, ret, lm_calls>>

(***************************************************************************)
(* Bounds of the model.                                                    *)
(***************************************************************************)
NI == 2
NK == 2
NT == 2

I == 1..NI
K == 1..NK
T == 1..NT

(***************************************************************************)
(* Python's None and the values standing for absent arguments.             *)
(***************************************************************************)
None == <<>>
NoName == "<None>"
NoGrid == "<None>"
NoSign == "<None>"
NoErr == "<none>"

\* F applied to the value of x, x evaluated once
With(x, F(_)) == CHOOSE r \in {F(v) : v \in {x}} : TRUE

(***************************************************************************)
(* Floating-point arithmetic.  The fields of the program are arrays of     *)
(* IEEE 754 binary64 numbers, and every operation rounds its result to the *)
(* nearest one, ties to even.  A value is <<s, m, e>>: the sign s (1 or    *)
(* -1), the magnitude m, a natural number written as its digits in base    *)
(* 2^14, the lowest digit first and non-zero, and the exponent e in digits:*)
(* the value is s * m * 2^(14 * e).  m = <<>> with e = 0 is a zero of sign *)
(* s, m = <<>> with e = 1 an infinity of sign s, and s = 0 is NaN.         *)
(***************************************************************************)
Digit == 14
Base == 16384
Precision == 53
MaxExponent == 1023
MinNormal == -1022
MinExponent == -1074

Abs(x) == IF x < 0 THEN -x ELSE x
Sgn(x) == IF x > 0 THEN 1 ELSE IF x < 0 THEN -1 ELSE 0

RECURSIVE Pow2(_)
Pow2(n) == IF n = 0 THEN 1 ELSE 2 * Pow2(n - 1)
\* the number of bits of a digit
RECURSIVE BitLen(_)
BitLen(x) == IF x = 0 THEN 0 ELSE 1 + BitLen(x \div 2)

\* natural numbers of any size, as digits
Limb(m, j) == IF j >= 1 /\ j <= Len(m) THEN m[j] ELSE 0
RECURSIVE Trim(_)
Trim(m) == IF m # <<>> /\ m[Len(m)] = 0 THEN Trim(SubSeq(m, 1, Len(m) - 1)) ELSE m
RECURSIVE LowZeros(_)
LowZeros(m) == IF m # <<>> /\ m[1] = 0 THEN 1 + LowZeros(Tail(m)) ELSE 0
Shift(m, n) == [j \in 1..(Len(m) + n) |-> IF j <= n THEN 0 ELSE m[j - n]]
Bits(m) == IF m = <<>> THEN 0 ELSE Digit * (Len(m) - 1) + BitLen(m[Len(m)])
BitOf(m, n) == (Limb(m, (n \div Digit) + 1) \div Pow2(n % Digit)) % 2
\* whether one of the n lowest bits of m is set
AnyLow(m, n) ==
    \/ \E j \in 1..(n \div Digit) : Limb(m, j) # 0
    \/ Limb(m, (n \div Digit) + 1) % Pow2(n % Digit) # 0
\* m with its n lowest bits cleared
ClearLow(m, n) ==
    [j \in 1..Len(m) |->
        IF j <= n \div Digit THEN 0
        ELSE IF j = (n \div Digit) + 1 THEN m[j] - (m[j] % Pow2(n % Digit))
        ELSE m[j]]
\* 2^n

\* a + b + c from digit j on, c the carry
RECURSIVE AddC(_, _, _, _)
AddC(a, b, j, c) ==
    IF j > Len(a) /\ j > Len(b) THEN (IF c = 0 THEN <<>> ELSE <<c>>)
    ELSE LET s == Limb(a, j) + Limb(b, j) + c
         IN  <<s % Base>> \o AddC(a, b, j + 1, s \div Base)
AddM(a, b) == AddC(a, b, 1, 0)
\* a - b - c from digit j on, for a >= b, c the borrow
RECURSIVE SubC(_, _, _, _)
SubC(a, b, j, c) ==
    IF j > Len(a) THEN <<>>
    ELSE LET s == a[j] - Limb(b, j) - c
         IN  <<(s + Base) % Base>> \o SubC(a, b, j + 1, IF s < 0 THEN 1 ELSE 0)
SubM(a, b) == Trim(SubC(a, b, 1, 0))
\* the sign of a - b, from digit j down
RECURSIVE CmpFrom(_, _, _)
CmpFrom(a, b, j) ==
    IF j = 0 THEN 0
    ELSE IF a[j] # b[j] THEN Sgn(a[j] - b[j])
    ELSE CmpFrom(a, b, j - 1)
CmpM(a, b) ==
    IF Len(a) # Len(b) THEN Sgn(Len(a) - Len(b)) ELSE CmpFrom(a, b, Len(a))
\* the sum of the products of the digits of a and b of weight Base^(j-1)
RECURSIVE Column(_, _, _, _)
Column(a, b, j, i) ==
    IF i > Len(a) \/ i > j THEN 0
    ELSE a[i] * Limb(b, j + 1 - i) + Column(a, b, j, i + 1)
RECURSIVE MulC(_, _, _, _)
MulC(a, b, j, c) ==
    IF j > Len(a) + Len(b) THEN <<>>
    ELSE LET s == Column(a, b, j, 1) + c
         IN  <<s % Base>> \o MulC(a, b, j + 1, s \div Base)
MulM(a, b) == Trim(MulC(a, b, 1, 0))
\* the largest digit q, built from the bit given down, with q * d <= n
RECURSIVE QuotDigit(_, _, _, _)
QuotDigit(n, d, bit, q) ==
    IF bit < 0 THEN q
    ELSE IF CmpM(MulM(<<q + Pow2(bit)>>, d), n) <= 0
    THEN QuotDigit(n, d, bit - 1, q + Pow2(bit))
    ELSE QuotDigit(n, d, bit - 1, q)
\* quotient and remainder of the digits j.. of n by d, one digit at a time
RECURSIVE DivLong(_, _, _)
DivLong(n, d, j) ==
    IF j > Len(n) THEN <<<<>>, <<>>>>
    ELSE LET up == DivLong(n, d, j + 1)
             cur == Trim(<<n[j]>> \o up[2])
             q == QuotDigit(cur, d, Digit - 1, 0)
         IN  <<<<q>> \o up[1], SubM(cur, MulM(<<q>>, d))>>
\* quotient and remainder of the digits j.. of n by the digit d
RECURSIVE DivDigit(_, _, _)
DivDigit(n, d, j) ==
    IF j > Len(n) THEN <<<<>>, 0>>
    ELSE LET up == DivDigit(n, d, j + 1)
             cur == up[2] * Base + n[j]
         IN  <<<<cur \div d>> \o up[1], cur % d>>
\* the quotient r[1] with a digit below it that tells whether the division
\* left a remainder r[2]
Sticky(r, none) == Trim(<<IF r[2] # none THEN 1 ELSE 0>> \o r[1])
\* the quotient of n by d, a digit lower, with the remainder's digit
DivM(n, d) ==
    IF Len(d) = 1 THEN Sticky(DivDigit(n, d[1], 1), 0)
    ELSE Sticky(DivLong(n, d, 1), <<>>)

NaN == <<0, <<>>, 1>>
Inf(s) == <<s, <<>>, 1>>
ZeroOf(s) == <<s, <<>>, 0>>
Zero == ZeroOf(1)
IsNaN(a) == a[1] = 0
IsInf(a) == a[1] # 0 /\ a[2] = <<>> /\ a[3] = 1
IsZero(a) == a[2] = <<>> /\ a[3] = 0

\* the value s * m * 2^(14 * e) of a non-zero m that needs no rounding
Exact(s, m, e) ==
    LET z == LowZeros(m) IN <<s, SubSeq(m, z + 1, Len(m)), e + z>>
Pack(s, m, e) ==
    IF m = <<>> THEN ZeroOf(s)
    ELSE IF Bits(m) + Digit * e - 1 > MaxExponent THEN Inf(s)
    ELSE Exact(s, m, e)
\* s * m * 2^(14 * e) rounded to the nearest binary64 number, ties to even;
\* m has no leading zero digit.  A magnitude of fewer than 4 digits has fewer
\* than 53 bits, and with an exponent within 60 digits of zero it is far from
\* overflow and underflow: it is exact.  Otherwise the bits below bit d are
\* rounded away, to the nearest and ties to even: 53 bits are kept, fewer below
\* the smallest normal number
Round(s, m, e) ==
    IF m = <<>> THEN ZeroOf(s)
    ELSE IF Len(m) < 4 /\ e > -60 /\ e < 60 THEN Exact(s, m, e)
    ELSE LET bits == Bits(m)
             d == IF Digit * e + bits - 1 >= MinNormal THEN bits - Precision
                  ELSE MinExponent - Digit * e
         IN  Pack(s,
                  IF d <= 0 THEN m
                  ELSE IF d > bits THEN <<>>
                  ELSE Trim(AddM(ClearLow(m, d),
                                 IF BitOf(m, d - 1) = 1
                                    /\ (AnyLow(m, d - 1) \/ BitOf(m, d) = 1)
                                 THEN Shift(<<Pow2(d % Digit)>>, d \div Digit)
                                 ELSE <<>>)),
                  e)

\* the integer n
RECURSIVE Digits(_)
Digits(n) == IF n = 0 THEN <<>> ELSE <<n % Base>> \o Digits(n \div Base)
Num(n) == Round(IF n < 0 THEN -1 ELSE 1, Digits(Abs(n)), 0)

\* a number whose leading digit lies Far digits or more below the leading digit
\* of another is less than a quarter of the other's last bit
Far == 5
Neg(a) == <<-a[1], a[2], a[3]>>
Mul(a, b) ==
    IF IsNaN(a) \/ IsNaN(b) THEN NaN
    ELSE IF (IsInf(a) /\ IsZero(b)) \/ (IsZero(a) /\ IsInf(b)) THEN NaN
    ELSE IF IsInf(a) \/ IsInf(b) THEN Inf(a[1] * b[1])
    ELSE IF IsZero(a) \/ IsZero(b) THEN ZeroOf(a[1] * b[1])
    ELSE IF b[2] = <<1>> /\ b[3] = 0 THEN <<a[1] * b[1], a[2], a[3]>>
    ELSE IF a[2] = <<1>> /\ a[3] = 0 THEN <<a[1] * b[1], b[2], b[3]>>
    ELSE Round(a[1] * b[1], MulM(a[2], b[2]), a[3] + b[3])
\* the quotient is computed to 57 bits or more, and a digit below them tells
\* whether the division left a remainder
Div(a, b) ==
    IF IsNaN(a) \/ IsNaN(b) THEN NaN
    ELSE IF (IsInf(a) /\ IsInf(b)) \/ (IsZero(a) /\ IsZero(b)) THEN NaN
    ELSE IF IsInf(a) \/ IsZero(b) THEN Inf(a[1] * b[1])
    ELSE IF IsZero(a) \/ IsInf(b) THEN ZeroOf(a[1] * b[1])
    ELSE LET k == (IF Len(b[2]) > Len(a[2]) THEN Len(b[2]) - Len(a[2]) ELSE 0) + 5
         IN  Round(a[1] * b[1], DivM(Shift(a[2], k), b[2]), a[3] - b[3] - k - 1)
\* the magnitudes x and y, of signs s and t and of the same exponent e, added
AddAligned(s, x, t, y, e) ==
    LET c == CmpM(x, y)
    IN  IF s # t /\ c = 0 THEN Zero
        ELSE Round(IF s = t \/ c > 0 THEN s ELSE t,
                   IF s = t THEN AddM(x, y)
                   ELSE SubM(IF c > 0 THEN x ELSE y, IF c > 0 THEN y ELSE x),
                   e)
Add(a, b) ==
    IF IsNaN(a) \/ IsNaN(b) THEN NaN
    ELSE IF IsInf(a) /\ IsInf(b) THEN (IF a[1] = b[1] THEN a ELSE NaN)
    ELSE IF IsInf(a) THEN a
    ELSE IF IsInf(b) THEN b
    ELSE IF IsZero(a) /\ IsZero(b) THEN (IF a[1] = b[1] THEN a ELSE Zero)
    ELSE IF IsZero(a) THEN b
    ELSE IF IsZero(b) THEN a
    ELSE IF (a[3] + Len(a[2])) - (b[3] + Len(b[2])) >= Far THEN a
    ELSE IF (b[3] + Len(b[2])) - (a[3] + Len(a[2])) >= Far THEN b
    ELSE LET e == IF a[3] <= b[3] THEN a[3] ELSE b[3]
         IN  AddAligned(a[1], Shift(a[2], a[3] - e), b[1], Shift(b[2], b[3] - e), e)
Sub(a, b) == Add(a, Neg(b))

\* comparisons with zero as floating point makes them: false on NaN
Gt0(a) == a[1] > 0 /\ ~IsZero(a)
Lt0(a) == a[1] < 0 /\ ~IsZero(a)
\* a boolean array entry used as a number
Bool(b) == IF b THEN Num(1) ELSE Zero
\* truth of a number, as DataArray.where and astype('bool') read it
Truthy(a) == ~IsZero(a)

\* sum of the entries of a sequence of values, missing (NaN) entries skipped,
\* as DataArray.sum does by default; the sum of no entries is zero
\* mutant: missing entries are not skipped
RECURSIVE SumKeepNaN(_)
SumKeepNaN(s) ==
    IF s = <<>> THEN Zero
    ELSE Add(SumKeepNaN(SubSeq(s, 1, Len(s) - 1)), s[Len(s)])
RECURSIVE SumSkipNaN(_)
SumSkipNaN(s) ==
    IF s = <<>> THEN Zero
    ELSE LET h == s[Len(s)]
             r == SumSkipNaN(SubSeq(s, 1, Len(s) - 1))
         IN  IF IsNaN(h) THEN r ELSE Add(r, h)

(***************************************************************************)
(* Fields, masks and coordinates of the model's grid.                      *)
(***************************************************************************)
MaskVals == {-1, 0, 1}

\* a field grows along the row and with depth, and changes sign from one time
\* step to the next
TF(t) == IF t % 2 = 1 THEN t ELSE -t

\* the field with horizontal profile h (integers), fld[t][k][i]
FieldOf(h) ==
    [t \in T |-> [k \in K |-> [i \in I |-> Num(h[i] * i * k * TF(t))]]]
\* the same field in tenths: values that are not binary fractions
TenthsOf(h) ==
    [t \in T |-> [k \in K |-> [i \in I |->
        Div(Num(h[i] * i * k * TF(t)), Num(10))]]]
\* the section mask with integer entries m, mask[i]
MaskOf(m) == [i \in I |-> Num(m[i])]

\* profiles of a flow that crosses every edge, in one direction or the other
FlowProfiles == [I -> {-1, 1}]
MaskProfiles == [I -> MaskVals]
Uniform(v) == [i \in I |-> v]
\* a fixed profile of alternating direction
Alt == [i \in I |-> IF i % 2 = 1 THEN 1 ELSE -1]

\* coordinates: depth Z[k], level index k, time, depth thickness drF[k] and
\* edge lengths dyG[i] and dxG[i]
BaseCoords ==
    [Z |-> [k \in K |-> Num(5 - 10 * k)],
     k |-> [k \in K |-> Num(k - 1)],
     time |-> [t \in T |-> Num(t)],
     drF |-> [k \in K |-> Num(10 * k)],
     dyG |-> [i \in I |-> Num(1000 * i)],
     dxG |-> [i \in I |-> Num(500 * i)]]
\* wet-point masks wet[k][i]: the last cell is land below the first level
WetMask == [k \in K |-> [i \in I |-> Bool(~(i = NI /\ k > 1))]]
WetCoords ==
    [Z |-> BaseCoords.Z, k |-> BaseCoords.k, time |-> BaseCoords.time,
     drF |-> BaseCoords.drF, dyG |-> BaseCoords.dyG, dxG |-> BaseCoords.dxG,
     maskC |-> WetMask, maskW |-> WetMask, maskS |-> WetMask]
CoordsSet == {BaseCoords, WetCoords}

(***************************************************************************)
(* The section catalog (get_section_masks): the endpoints of a predefined  *)
(* section, and the masks of the line between two points.                  *)
(***************************************************************************)
DrakePt1 == <<-68, -54>>
DrakePt2 == <<-63, -66>>
UserPt1 == <<-20, 10>>

KnownSections == {"Drake Passage"}
get_section_endpoints(name) ==
    IF name \in KnownSections THEN <<DrakePt1, DrakePt2>> ELSE None

\* the masks are a function of the two end points only; the sign of an entry
\* is the direction of the line
get_section_line_masks(p1, p2, dset, grd) ==
    LET sx == Sgn(p2[1] - p1[1])
        sy == Sgn(p2[2] - p1[2])
    IN  <<[i \in I |-> Num(1)],
          [i \in I |-> Num(IF i % 2 = 1 THEN sy ELSE 0)],
          [i \in I |-> Num(IF i % 2 = 1 THEN sx ELSE -sx)]>>

(***************************************************************************)
(* _parse_section_trsp_inputs                                              *)
(***************************************************************************)
MustProvide == "TypeError: Must provide one method for defining section"
CannotProvide == "TypeError: Cannot provide more than one method for defining section"

use_predefined_section(name) ==
    name # NoName /\ get_section_endpoints(name) # None
use_endpoints(p1, p2) == p1 # None /\ p2 # None
\* mutants of use_masks: one of maskW, maskS suffices; maskC alone does not
use_masks_either(mC, mW, mS) == (mW # None \/ mS # None) \/ mC # None
use_masks_pair(mC, mW, mS) == mW # None /\ mS # None
use_masks(mC, mW, mS) == (mW # None /\ mS # None) \/ mC # None

\* line 495: no method defines the section
underspecified(pre, ends, msk) == ~pre /\ ~ends /\ ~msk
\* lines 499-506: more than one method defines the section
\* mutant: end points together with masks are let through
ambiguous_predefined_only(pre, ends, msk) == pre /\ (ends \/ msk)
ambiguous(pre, ends, msk) == IF pre THEN ends \/ msk ELSE ends /\ msk
\* line 502: a predefined section replaces pt1 and pt2 by its end points
section_endpoints(pre, name, p1, p2) ==
    IF pre THEN get_section_endpoints(name) ELSE <<p1, p2>>
\* line 508: the call of get_section_line_masks
\* mutant: the grid is not passed on
line_masks_call_no_grid(q, dset, grd) ==
    [pt1 |-> q[1], pt2 |-> q[2], ds |-> dset, grid |-> NoGrid]
line_masks_call(q, dset, grd) ==
    [pt1 |-> q[1], pt2 |-> q[2], ds |-> dset, grid |-> grd]

\* the result: the exception raised or NoErr, the triple returned or None, and
\* the calls made to get_section_line_masks
parse_section_trsp_inputs(dset, p1, p2, mC, mW, mS, name, grd) ==
    LET pre == use_predefined_section(name)
        ends == use_endpoints(p1, p2)
        msk == use_masks(mC, mW, mS)
    IN  IF underspecified(pre, ends, msk)
        THEN [err |-> MustProvide, ret |-> None, calls |-> <<>>]
        ELSE IF ambiguous(pre, ends, msk)
        THEN [err |-> CannotProvide, ret |-> None, calls |-> <<>>]
        ELSE LET q == section_endpoints(pre, name, p1, p2)
                 c == line_masks_call(q, dset, grd)
             IN  IF ~msk
                 THEN [err |-> NoErr,
                       ret |-> get_section_line_masks(c.pt1, c.pt2, c.ds, c.grid),
                       calls |-> <<c>>]
                 ELSE [err |-> NoErr, ret |-> <<mC, mW, mS>>, calls |-> <<>>]

(***************************************************************************)
(* The arguments of a call of the mask resolver.                           *)
(***************************************************************************)
EmptyDs == [f \in {} |-> None]
Names == {NoName, "Drake Passage", "my section"}
PtArgs1 == {None, UserPt1, DrakePt1}
PtArgs2 == {None, <<20, 12>>}
GivenMaskC == MaskOf([i \in I |-> IF i = 1 THEN 1 ELSE 0])
GivenMaskW == MaskOf([i \in I |-> IF i = 1 THEN 1 ELSE -1])
GivenMaskS == MaskOf([i \in I |-> IF i = 1 THEN 0 ELSE 1])
Grids == {NoGrid, "llc"}

InitParse ==
    /\ op = "_parse_section_trsp_inputs"
    /\ pc = "call"
    /\ ds = EmptyDs
    /\ coords = BaseCoords
    /\ pt1 \in PtArgs1
    /\ pt2 \in PtArgs2
    /\ section_name \in Names
    /\ maskC \in {None, GivenMaskC}
    /\ maskW \in {None, GivenMaskW}
    /\ maskS \in {None, GivenMaskS}
    /\ grid \in Grids
    /\ sign = NoSign
    /\ along_section = FALSE
    /\ Sref = Num(35)
    /\ xfld = None
    /\ yfld = None
    /\ err = NoErr
    /\ ret = None
    /\ lm_calls = <<>>

\* the arguments of a call stay what the caller passed
UnchangedArgs ==
    UNCHANGED <<op, coords, pt1, pt2, section_name, maskC, maskW, maskS,
                grid, sign, along_section, Sref, xfld, yfld>>

ParseCall ==
    /\ pc = "call"
    /\ op = "_parse_section_trsp_inputs"
    /\ LET r == parse_section_trsp_inputs(coords, pt1, pt2, maskC, maskW, maskS,
                                          section_name, grid)
       IN  /\ err' = r.err
           /\ ret' = r.ret
           /\ lm_calls' = r.calls
    /\ pc' = "done"
    /\ UNCHANGED ds
    /\ UnchangedArgs

NextParse == ParseCall
SpecParse == InitParse /\ [][NextParse]_vars

(***************************************************************************)
(* _initialize_section_trsp_data_array: a zero-valued trsp_z over depth,   *)
(* and over time when the coordinates have a time axis, with the depth     *)
(* coordinate Z.  dims names the axes of trsp_z, ij the cells its axis ij  *)
(* is labelled with and cell the cell that labels it when it has lost the  *)
(* axis ij, 0 for none.                                                    *)
(***************************************************************************)
initialize_section_trsp_data_array(crd) ==
    LET xda == [k \in DOMAIN crd.k |-> Zero]
    IN  [trsp_z |-> IF "time" \in DOMAIN crd
                    THEN [t \in DOMAIN crd.time |-> xda] ELSE xda,
         dims |-> IF "time" \in DOMAIN crd THEN <<"time", "k">> ELSE <<"k">>,
         ij |-> <<>>,
         cell |-> 0,
         Z |-> crd.Z]

(***************************************************************************)
(* section_trsp_at_depth                                                   *)
(***************************************************************************)
\* lines 389-390: an entry of mask.where(wet): the mask where the point is
\* wet, missing elsewhere
\* mutant: the wet-point masks are not used
where_wet_ignored(mask, crd, name, k, i) == mask[i]
where_wet(mask, crd, name, k, i) ==
    IF name \in DOMAIN crd
    THEN (IF Truthy(crd[name][k][i]) THEN mask[i] ELSE NaN)
    ELSE mask[i]

\* lines 392-398: an entry m of the mask after the sign filter, f the entry of
\* the field: zeroed where the flux has not the wanted direction
\* mutant: 'negative' keeps the positive direction too
sign_filter_same(m, f, sgn) ==
    IF sgn # NoSign
    THEN IF sgn = "positive" THEN Mul(m, Bool(Gt0(Mul(m, f))))
         ELSE IF sgn = "negative" THEN Mul(m, Bool(Gt0(Mul(m, f))))
         ELSE m
    ELSE m
sign_filter(m, f, sgn) ==
    IF sgn # NoSign
    THEN IF sgn = "positive" THEN Mul(m, Bool(Gt0(Mul(m, f))))
         ELSE IF sgn = "negative" THEN Mul(m, Bool(Lt0(Mul(m, f))))
         ELSE m
    ELSE m

\* lines 400-401: (fld * mask).sum over the horizontal axes, at time t and
\* level k
horizontal_sum(fld, mask, crd, name, sgn, t, k) ==
    SumSkipNaN([i \in I |->
        Mul(fld[t][k][i],
            sign_filter(where_wet(mask, crd, name, k, i), fld[t][k][i], sgn))])

\* line 384: without coords the x field stands for them; it has no wet masks
coords_or_field(crd) ==
    IF crd # None THEN crd
    ELSE [Z |-> BaseCoords.Z, k |-> BaseCoords.k, time |-> BaseCoords.time]

\* what a reducer leaves: the exception raised, or NoErr and the dataset
Fails(e) == [err |-> e, ret |-> None]
Gives(v) == [err |-> NoErr, ret |-> v]

AttributeError == "AttributeError: 'NoneType' object has no attribute"
OperandTypeError == "TypeError: unsupported operand type(s) for *"

section_trsp_at_depth(xf, yf, mW, mS, crd0, sgn) ==
    LET crd == coords_or_field(crd0)
        ds_out == initialize_section_trsp_data_array(crd)
    IN  IF mW = None /\ "maskW" \in DOMAIN crd THEN Fails(AttributeError)
        ELSE IF mS = None /\ "maskS" \in DOMAIN crd THEN Fails(AttributeError)
        ELSE IF mW = None \/ mS = None THEN Fails(OperandTypeError)
        ELSE Gives([ds_out EXCEPT !.trsp_z =
                [t \in T |-> [k \in K |->
                    Add(horizontal_sum(xf, mW, crd, "maskW", sgn, t, k),
                        horizontal_sum(yf, mS, crd, "maskS", sgn, t, k))]]])

(***************************************************************************)
(* The arguments of a direct call of section_trsp_at_depth.                *)
(***************************************************************************)
Signs == {NoSign, "positive", "negative"}
\* the flux fields: whole numbers in every pattern of directions, a field of
\* zeros, and fields in tenths
DepthXFields ==
    {FieldOf(h) : h \in FlowProfiles \cup {Uniform(0)}}
        \cup {TenthsOf(h) : h \in {Alt, Uniform(1)}}
DepthYFields == {FieldOf(Uniform(-1)), TenthsOf(Uniform(1))}

InitDepth ==
    /\ op = "section_trsp_at_depth"
    /\ pc = "call"
    /\ ds = EmptyDs
    /\ coords \in CoordsSet \cup {None}
    /\ pt1 = None
    /\ pt2 = None
    /\ section_name = NoName
    /\ maskC = None
    /\ maskW \in {MaskOf(m) : m \in MaskProfiles}
    /\ maskS \in {MaskOf(Uniform(m)) : m \in MaskVals}
    /\ grid = NoGrid
    /\ sign \in Signs
    /\ along_section = FALSE
    /\ Sref = Num(35)
    /\ xfld \in DepthXFields
    /\ yfld \in DepthYFields
    /\ err = NoErr
    /\ ret = None
    /\ lm_calls = <<>>

AtDepthCall ==
    /\ pc = "call"
    /\ op = "section_trsp_at_depth"
    /\ LET r == section_trsp_at_depth(xfld, yfld, maskW, maskS, coords, sign)
       IN  err' = r.err /\ ret' = r.ret
    /\ pc' = "done"
    /\ UNCHANGED <<ds, lm_calls>>
    /\ UnchangedArgs

(***************************************************************************)
(* section_trsp_across                                                     *)
(***************************************************************************)
Half == Div(Num(1), Num(2))
WhereTypeError == "TypeError: cond argument must be a Dataset or DataArray"

\* grid.interp_2d_vector(boundary='fill') on the one-row tile: the mean of a
\* cell's two edges, the edge beyond the tile read as zero
interp_2d_vector_X(xf, t, k, i) ==
    Mul(Half, Add(xf[t][k][i], IF i + 1 \in I THEN xf[t][k][i + 1] ELSE Zero))
interp_2d_vector_Y(yf, t, k, i) ==
    Mul(Half, Add(yf[t][k][i], Zero))

\* line 438: the center mask at level k, cell i, with the wet-point mask when
\* the coordinates carry one
across_mask(mC, crd, k, i) ==
    IF "maskC" \in DOMAIN crd
    THEN Mul(Bool(Truthy(mC[i])), crd.maskC[k][i])
    ELSE mC[i]

\* the members of a list
Range(s) == {s[n] : n \in DOMAIN s}

\* lines 444-445, where(maskC, drop=True): every axis of the mask is trimmed to
\* the entries at which the mask is true somewhere: the cells, and the levels
\* when the mask has taken the depth axis of the wet-point mask
where_cells(mC, crd) ==
    SelectSeq([i \in I |-> i], LAMBDA i : \E k \in K : Truthy(across_mask(mC, crd, k, i)))
where_levels(mC, crd) ==
    IF "maskC" \in DOMAIN crd
    THEN SelectSeq([k \in K |-> k],
                   LAMBDA k : \E i \in I : Truthy(across_mask(mC, crd, k, i)))
    ELSE [k \in K |-> k]
\* the value where() leaves at a place it keeps: missing where the mask is false
where_value(vel, mC, crd, t, k, i) ==
    IF Truthy(across_mask(mC, crd, k, i)) THEN vel[t][k][i] ELSE NaN
\* stack and dropna('ij', how='all'): the cells kept that hold a value at some
\* time and level
KeptCells(vel, mC, crd) ==
    SelectSeq(where_cells(mC, crd), LAMBDA i :
        \E t \in T, k \in Range(where_levels(mC, crd)) :
            ~IsNaN(where_value(vel, mC, crd, t, k, i)))
\* one component after line 444 or 445: the levels ks and the cells ij it
\* keeps, the length of its axis tile, and its values
trimmed(vel, mC, crd) ==
    [ks |-> where_levels(mC, crd),
     ij |-> KeptCells(vel, mC, crd),
     tile |-> IF where_cells(mC, crd) = <<>> THEN 0 ELSE 1,
     val |-> [t \in T |-> [k \in K |-> [i \in I |->
                where_value(vel, mC, crd, t, k, i)]]]]

\* squeeze(): an axis of length one is dropped
squeezed(n) == n = 1

\* line 447, the sum of the two components.  Both have the axis ij: the cells
\* they share are added (the axes are aligned by label); one has lost it: its
\* single cell is added to every cell of the other; both have lost it: their
\* single cells are added.  The pairs of cells added, in order:
sum_cells(a, b) ==
    IF squeezed(Len(a.ij)) /\ squeezed(Len(b.ij)) THEN << <<a.ij[1], b.ij[1]>> >>
    ELSE IF squeezed(Len(a.ij)) THEN [n \in DOMAIN b.ij |-> <<a.ij[1], b.ij[n]>>]
    ELSE IF squeezed(Len(b.ij)) THEN [n \in DOMAIN a.ij |-> <<a.ij[n], b.ij[1]>>]
    ELSE LET c == SelectSeq(a.ij, LAMBDA i : i \in Range(b.ij))
         IN  [n \in DOMAIN c |-> <<c[n], c[n]>>]
sum_has_ij(a, b) == ~(squeezed(Len(a.ij)) /\ squeezed(Len(b.ij)))
\* the labels of the axis ij of the sum
sum_labels(a, b) ==
    IF ~sum_has_ij(a, b) THEN <<>>
    ELSE [n \in DOMAIN sum_cells(a, b) |->
            sum_cells(a, b)[n][IF squeezed(Len(a.ij)) THEN 2 ELSE 1]]
\* the cell a sum without the axis ij is labelled with, 0 when the labels of
\* the two components differ and are dropped
sum_cell(a, b) ==
    IF ~sum_has_ij(a, b) /\ a.ij[1] = b.ij[1] THEN a.ij[1] ELSE 0
\* the sum at time t and level k: a row along ij, or a number
across_sum(a, b, t, k) ==
    LET row == [n \in DOMAIN sum_cells(a, b) |->
                    Add(a.val[t][k][sum_cells(a, b)[n][1]],
                        b.val[t][k][sum_cells(a, b)[n][2]])]
    IN  IF sum_has_ij(a, b) THEN row ELSE row[1]
\* the axes of the sum, those of length one squeezed
across_dims(a, b) ==
    <<"time">> \o (IF squeezed(Len(a.ks)) THEN <<>> ELSE <<"k">>)
               \o (IF squeezed(a.tile) THEN <<>> ELSE <<"tile">>)
               \o (IF sum_has_ij(a, b) THEN <<"ij">> ELSE <<>>)
\* line 447, the assignment to ds_out['trsp_z']: a sum that has the axis k is
\* laid on the levels of ds_out, missing at the levels where() dropped
across_trsp_z(a, b) ==
    IF squeezed(Len(a.ks)) THEN [t \in T |-> across_sum(a, b, t, a.ks[1])]
    ELSE [t \in T |-> [k \in K |->
            IF k \in Range(a.ks) THEN across_sum(a, b, t, k)
            ELSE IF sum_has_ij(a, b) THEN [n \in DOMAIN sum_cells(a, b) |-> NaN]
            ELSE NaN]]

section_trsp_across(xf, yf, mC, grd, crd0) ==
    LET crd == coords_or_field(crd0)
        ds_out == initialize_section_trsp_data_array(crd)
        a == trimmed([t \in T |-> [k \in K |-> [i \in I |->
                        interp_2d_vector_X(xf, t, k, i)]]], mC, crd)
        b == trimmed([t \in T |-> [k \in K |-> [i \in I |->
                        interp_2d_vector_Y(yf, t, k, i)]]], mC, crd)
    IN  IF mC = None /\ "maskC" \in DOMAIN crd THEN Fails(AttributeError)
        ELSE IF grd = NoGrid THEN Fails(AttributeError)
        ELSE IF mC = None THEN Fails(WhereTypeError)
        ELSE Gives([Z |-> ds_out.Z,
                    dims |-> across_dims(a, b),
                    ij |-> sum_labels(a, b),
                    cell |-> sum_cell(a, b),
                    trsp_z |-> across_trsp_z(a, b)])

(***************************************************************************)
(* The assemblers: calc_section_vol_trsp, calc_section_heat_trsp,          *)
(* calc_section_salt_trsp and calc_section_fw_trsp.                        *)
(***************************************************************************)
\* 10**-6 and 10**-15: the binary64 numbers nearest to them
METERS_CUBED_TO_SVERDRUPS == Div(Num(1), Num(1000000))
WATTS_TO_PETAWATTS == Div(Num(1), Mul(Num(1000000000), Num(1000000)))
RHO_CONST == 1029
HEAT_CAPACITY == 4000

\* _parse_coords (calc_meridional_trsp): the coordinate bundle of the call
parse_coords(dset, crd, coordlist) == crd

\* the reducer chosen by along_section; [err, ret]
reduce(xf, yf, masks, grd, crd, sgn, along) ==
    IF along = TRUE
    THEN section_trsp_across(xf, yf, masks[1], grd, crd)
    ELSE section_trsp_at_depth(xf, yf, masks[2], masks[3], crd, sgn)

\* whether a field has the axis named
has_dim(dims, name) == \E n \in DOMAIN dims : dims[n] = name
\* DataArray.sum('k') of a field that has lost the axis k
DimError == "ValueError: 'k' not found in array dimensions"

\* DataArray.sum('k') of a reduced field: over depth, missing values skipped,
\* at every time step (and every cell kept along the section)
sum_k(out) ==
    [t \in T |->
        IF has_dim(out.dims, "ij")
        THEN [n \in DOMAIN out.ij |-> SumSkipNaN([k \in K |-> out.trsp_z[t][k][n]])]
        ELSE SumSkipNaN([k \in K |-> out.trsp_z[t][k]])]

\* factor * field, for a field over time, or over time and depth
scale_entry(factor, v, rows) ==
    IF rows THEN [n \in DOMAIN v |-> Mul(factor, v[n])] ELSE Mul(factor, v)
scale_t(factor, fld, rows) == [t \in T |-> scale_entry(factor, fld[t], rows)]
scale_tk(factor, fld, rows) ==
    [t \in T |-> [k \in K |-> scale_entry(factor, fld[t][k], rows)]]

\* lines 112-115: trsp_z renamed, and its sum over depth; dims gives the axes
\* of each field
summed(out, zname, name) ==
    [Z |-> out.Z,
     dims |-> (zname :> out.dims)
              @@ (name :> SelectSeq(out.dims, LAMBDA d : d # "k")),
     ij |-> out.ij,
     cell |-> out.cell,
     data |-> (zname :> out.trsp_z) @@ (name :> sum_k(out)),
     units |-> [f \in {} |-> ""],
     attrs |-> [a \in {} |-> ""]]
\* lines 118-120: the fields named are multiplied by the factor and given the
\* unit
converted(dset, flds, factor, unit) ==
    [dset EXCEPT
        !.data = [f \in DOMAIN dset.data |->
                    IF f \notin flds THEN dset.data[f]
                    ELSE IF has_dim(dset.dims[f], "k")
                    THEN scale_tk(factor, dset.data[f], has_dim(dset.dims[f], "ij"))
                    ELSE scale_t(factor, dset.data[f], has_dim(dset.dims[f], "ij"))],
        !.units = [f \in flds |-> unit] @@ @]

\* mutant: the depth-summed field is left unconverted
totals_unconverted(out, zname, name, factor, unit) ==
    [converted(summed(out, zname, name), {zname}, factor, unit)
        EXCEPT !.units = (name :> unit) @@ @]
\* rename trsp_z, sum over depth and convert both fields
totals(out, zname, name, factor, unit) ==
    converted(summed(out, zname, name), {zname, name}, factor, unit)

\* mutant: the masks are added in along-section mode too
add_masks_always(out, masks, sname, along) ==
    [out EXCEPT
        !.data = ("maskW" :> masks[2]) @@ ("maskS" :> masks[3]) @@ @,
        !.attrs = IF sname # NoName THEN ("name" :> sname) @@ @ ELSE @]
\* the masks and the section name added to the result
add_masks_and_name(out, masks, sname, along) ==
    [out EXCEPT
        !.data = IF ~along
                 THEN ("maskW" :> masks[2]) @@ ("maskS" :> masks[3]) @@ @
                 ELSE @,
        !.attrs = IF sname # NoName THEN ("name" :> sname) @@ @ ELSE @]

\* what a call leaves: the exception or NoErr, the returned dataset or None,
\* the caller's dataset after the call, the calls of get_section_line_masks
Raised(e, dset, calls) == [err |-> e, ret |-> None, ds |-> dset, calls |-> calls]
Returned(v, dset, calls) == [err |-> NoErr, ret |-> v, ds |-> dset, calls |-> calls]

\* the part the volume, heat and salt assemblers share
assemble(dset, xf, yf, p, crd, grd, sgn, along, sname, zname, name, factor, unit) ==
    With(reduce(xf, yf, p.ret, grd, crd, sgn, along), LAMBDA r :
        IF r.err # NoErr THEN Raised(r.err, dset, p.calls)
        ELSE IF ~has_dim(r.ret.dims, "k") THEN Raised(DimError, dset, p.calls)
        ELSE Returned(add_masks_and_name(totals(r.ret, zname, name, factor, unit),
                                         p.ret, sname, along),
                      dset, p.calls))

calc_section_vol_trsp(dset, p1, p2, sname, mW, mS, mC, crd0, grd, sgn, along) ==
    LET crd == parse_coords(dset, crd0, {"Z", "YC", "XC", "drF", "dyG", "dxG"})
        x_vol == [t \in T |-> [k \in K |-> [i \in I |->
                    Mul(Mul(dset["UVELMASS"][t][k][i], crd.drF[k]), crd.dyG[i])]]]
        y_vol == [t \in T |-> [k \in K |-> [i \in I |->
                    Mul(Mul(dset["VVELMASS"][t][k][i], crd.drF[k]), crd.dxG[i])]]]
    IN  With(parse_section_trsp_inputs(crd, p1, p2, mC, mW, mS, sname, grd), LAMBDA p :
        IF p.err # NoErr THEN Raised(p.err, dset, p.calls)
        ELSE With(x_vol, LAMBDA xf : With(y_vol, LAMBDA yf :
             assemble(dset, xf, yf, p, crd, grd, sgn, along, sname,
                      "vol_trsp_z", "vol_trsp", METERS_CUBED_TO_SVERDRUPS, "Sv"))))

\* the sum of two fields
add_fields(f, g) ==
    [t \in T |-> [k \in K |-> [i \in I |-> Add(f[t][k][i], g[t][k][i])]]]

heat_factor == Mul(Mul(WATTS_TO_PETAWATTS, Num(RHO_CONST)), Num(HEAT_CAPACITY))

calc_section_heat_trsp(dset, p1, p2, sname, mW, mS, mC, crd0, grd, sgn, along) ==
    LET crd == parse_coords(dset, crd0, {"Z", "YC", "XC"})
        x_heat == add_fields(dset["ADVx_TH"], dset["DFxE_TH"])
        y_heat == add_fields(dset["ADVy_TH"], dset["DFyE_TH"])
    IN  With(parse_section_trsp_inputs(crd, p1, p2, mC, mW, mS, sname, grd), LAMBDA p :
        IF p.err # NoErr THEN Raised(p.err, dset, p.calls)
        ELSE With(x_heat, LAMBDA xf : With(y_heat, LAMBDA yf :
             assemble(dset, xf, yf, p, crd, grd, sgn, along, sname,
                      "heat_trsp_z", "heat_trsp", heat_factor, "PW"))))

calc_section_salt_trsp(dset, p1, p2, sname, mW, mS, mC, crd0, grd, sgn, along) ==
    LET crd == parse_coords(dset, crd0, {"Z", "YC", "XC"})
        x_salt == add_fields(dset["ADVx_SLT"], dset["DFxE_SLT"])
        y_salt == add_fields(dset["ADVy_SLT"], dset["DFyE_SLT"])
    IN  With(parse_section_trsp_inputs(crd, p1, p2, mC, mW, mS, sname, grd), LAMBDA p :
        IF p.err # NoErr THEN Raised(p.err, dset, p.calls)
        ELSE With(x_salt, LAMBDA xf : With(y_salt, LAMBDA yf :
             assemble(dset, xf, yf, p, crd, grd, sgn, along, sname,
                      "salt_trsp_z", "salt_trsp", METERS_CUBED_TO_SVERDRUPS, "psu.Sv"))))

\* grid.interp(SALT, 'X', boundary='extend'): the mean of the two cells of a
\* west edge, the cell beyond the tile read as the first cell
\* mutant: boundary='fill', the cell beyond the tile read as zero
interp_X_fill(fld, t, k, i) ==
    Mul(Half, Add(IF i - 1 \in I THEN fld[t][k][i - 1] ELSE Zero, fld[t][k][i]))
interp_X(fld, t, k, i) ==
    Mul(Half, Add(IF i - 1 \in I THEN fld[t][k][i - 1] ELSE fld[t][k][i],
                  fld[t][k][i]))
\* grid.interp(SALT, 'Y', boundary='extend'): on one row both cells of a south
\* edge are the cell itself
interp_Y(fld, t, k, i) ==
    Mul(Half, Add(fld[t][k][i], fld[t][k][i]))
\* grid.diff(Psi, 'Z', boundary='fill'): the level below minus the level, the
\* level below the bottom read as zero
diff_Z(fld, t, k, i) ==
    Sub(IF k + 1 \in K THEN fld[t][k + 1][i] ELSE Zero, fld[t][k][i])

\* lines 307-310: the advective freshwater flux through an edge, vel the mass
\* velocity, star the eddy-induced velocity, len the edge length, S the
\* salinity at the edge
adv_fw(vel, star, len, drF, S, sref) ==
    Div(Mul(Mul(Mul(Add(vel, star), len), drF), Sub(sref, S)), sref)
\* lines 312-313: the diffusive freshwater flux
dif_fw(dfe, sref) == Div(Neg(dfe), sref)

ADVx_FW(dset, crd, sref) ==
    [t \in T |-> [k \in K |-> [i \in I |->
        adv_fw(dset["UVELMASS"][t][k][i],
               Div(diff_Z(dset["GM_PsiX"], t, k, i), crd.drF[k]),
               crd.dyG[i], crd.drF[k], interp_X(dset["SALT"], t, k, i), sref)]]]
ADVy_FW(dset, crd, sref) ==
    [t \in T |-> [k \in K |-> [i \in I |->
        adv_fw(dset["VVELMASS"][t][k][i],
               Div(diff_Z(dset["GM_PsiY"], t, k, i), crd.drF[k]),
               crd.dxG[i], crd.drF[k], interp_Y(dset["SALT"], t, k, i), sref)]]]
DFxE_FW(dset, sref) ==
    [t \in T |-> [k \in K |-> [i \in I |-> dif_fw(dset["DFxE_SLT"][t][k][i], sref)]]]
DFyE_FW(dset, sref) ==
    [t \in T |-> [k \in K |-> [i \in I |-> dif_fw(dset["DFyE_SLT"][t][k][i], sref)]]]

\* lines 309-313: the four fields are stored in the dataset of the caller
with_fw_fields(dset, crd, sref) ==
    ("ADVx_FW" :> ADVx_FW(dset, crd, sref)) @@ ("ADVy_FW" :> ADVy_FW(dset, crd, sref))
    @@ ("DFxE_FW" :> DFxE_FW(dset, sref)) @@ ("DFyE_FW" :> DFyE_FW(dset, sref))
    @@ dset

\* line 336, xr.merge of the advective and the diffusive result.  The axes ij
\* of the two are joined: the merged axis has the cells of both, and a field
\* is missing at the cells only the other result has.  When one result still
\* has the axis ij and the other has lost it, the merged dataset keeps the
\* axis and drops the other's scalar label of the same name
merge_labels(a, b) ==
    SelectSeq([i \in I |-> i], LAMBDA i : i \in Range(a.ij) \cup Range(b.ij))
relabel_row(row, from, to) ==
    [n \in DOMAIN to |->
        IF to[n] \in Range(from)
        THEN row[CHOOSE m \in DOMAIN from : from[m] = to[n]]
        ELSE NaN]
relabel(val, dims, from, to) ==
    IF ~has_dim(dims, "ij") THEN val
    ELSE IF has_dim(dims, "k")
    THEN [t \in T |-> [k \in K |-> relabel_row(val[t][k], from, to)]]
    ELSE [t \in T |-> relabel_row(val[t], from, to)]
\* two results without the axis ij, labelled with different cells, do not merge
MergeError == "MergeError: conflicting values for variable"
merge(a, b) ==
    [Z |-> a.Z,
     dims |-> a.dims @@ b.dims,
     ij |-> merge_labels(a, b),
     cell |-> IF \E r \in {a, b} : \E f \in DOMAIN r.dims : has_dim(r.dims[f], "ij")
              THEN 0
              ELSE IF a.cell # 0 THEN a.cell ELSE b.cell,
     data |-> [f \in DOMAIN a.data |->
                    relabel(a.data[f], a.dims[f], a.ij, merge_labels(a, b))]
              @@ [f \in DOMAIN b.data |->
                    relabel(b.data[f], b.dims[f], b.ij, merge_labels(a, b))],
     units |-> a.units @@ b.units,
     attrs |-> a.attrs]

\* lines 319-350: the two reductions, the sums over depth, the merged result
\* and its conversion
fw_result(ds1, p, crd, grd, sgn, along, sname) ==
    With(reduce(ds1["ADVx_FW"], ds1["ADVy_FW"], p.ret, grd, crd, sgn, along), LAMBDA adv :
    IF adv.err # NoErr THEN Raised(adv.err, ds1, p.calls)
    ELSE With(reduce(ds1["DFxE_FW"], ds1["DFyE_FW"], p.ret, grd, crd, sgn, along), LAMBDA dif :
    IF dif.err # NoErr THEN Raised(dif.err, ds1, p.calls)
    ELSE IF ~has_dim(adv.ret.dims, "k") \/ ~has_dim(dif.ret.dims, "k") THEN Raised(DimError, ds1, p.calls)
    ELSE IF adv.ret.cell # 0 /\ dif.ret.cell # 0 /\ adv.ret.cell # dif.ret.cell
    THEN Raised(MergeError, ds1, p.calls)
    ELSE Returned(
            add_masks_and_name(
                converted(merge(summed(adv.ret, "fw_trsp_adv_z", "fw_trsp_adv"),
                                summed(dif.ret, "fw_trsp_dif_z", "fw_trsp_dif")),
                          {"fw_trsp_adv", "fw_trsp_adv_z",
                           "fw_trsp_dif", "fw_trsp_dif_z"},
                          METERS_CUBED_TO_SVERDRUPS, "Sv"),
                p.ret, sname, along),
            ds1, p.calls)))

calc_section_fw_trsp(dset, sref, p1, p2, sname, mW, mS, mC, crd0, grd, sgn, along) ==
    LET crd == parse_coords(dset, crd0, {"Z", "YC", "XC", "dyG", "dxG", "drF"})
    IN  With(parse_section_trsp_inputs(crd, p1, p2, mC, mW, mS, sname, grd), LAMBDA p :
        IF p.err # NoErr THEN Raised(p.err, dset, p.calls)
        ELSE IF grd = NoGrid THEN Raised(AttributeError, dset, p.calls)
        ELSE With(with_fw_fields(dset, crd, sref), LAMBDA ds1 :
             fw_result(ds1, p, crd, grd, sgn, along, sname)))

(***************************************************************************)
(* The arguments of a call of an assembler.                                *)
(***************************************************************************)
Assemblers == {"calc_section_vol_trsp", "calc_section_heat_trsp",
               "calc_section_salt_trsp", "calc_section_fw_trsp"}

\* salinity: the reference salinity plus an anomaly that grows along the row
SaltOf(sref, anom) ==
    [t \in T |-> [k \in K |-> [i \in I |-> Add(sref, Num(anom * (i - 1)))]]]
\* reference salinity and salinity anomaly of a freshwater call
SaltCases == {<<Num(35), 0>>, <<Num(35), 1>>, <<Num(34), 0>>}

\* the dataset of a call of assembler f: its x fields follow the profile h
DatasetOf(f, h, sref, anom) ==
    IF f = "calc_section_vol_trsp"
    THEN [UVELMASS |-> FieldOf(h), VVELMASS |-> FieldOf(Uniform(1))]
    ELSE IF f = "calc_section_heat_trsp"
    THEN [ADVx_TH |-> FieldOf(h), DFxE_TH |-> FieldOf(Alt),
          ADVy_TH |-> FieldOf(Uniform(1)), DFyE_TH |-> FieldOf(Alt)]
    ELSE IF f = "calc_section_salt_trsp"
    THEN [ADVx_SLT |-> FieldOf(h), DFxE_SLT |-> FieldOf(Alt),
          ADVy_SLT |-> FieldOf(Uniform(1)), DFyE_SLT |-> FieldOf(Alt)]
    ELSE [UVELMASS |-> FieldOf(h), VVELMASS |-> FieldOf(Uniform(1)),
          GM_PsiX |-> FieldOf(Alt), GM_PsiY |-> FieldOf(Uniform(1)),
          SALT |-> SaltOf(sref, anom),
          DFxE_SLT |-> FieldOf(Alt), DFyE_SLT |-> FieldOf(Uniform(1))]

\* the fields named, without a value at cell c
MissingAt(dset, flds, c) ==
    [f \in DOMAIN dset |->
        IF f \notin flds THEN dset[f]
        ELSE [t \in T |-> [k \in K |-> [i \in I |->
                IF i = c THEN NaN ELSE dset[f][t][k][i]]]]]

\* calls of every assembler in depth-level mode that vary the fields, the
\* salinity, the masks, the wet-point masks and the sign; a freshwater call
\* without a salinity anomaly also has a velocity without a value at a cell
InitFields ==
    /\ op \in Assemblers
    /\ pc = "call"
    /\ \E h \in {Alt, Uniform(1)} :
       \E sc \in (IF op = "calc_section_fw_trsp" THEN SaltCases ELSE {<<Num(35), 0>>}) :
       \E flds \in (IF op = "calc_section_fw_trsp" /\ sc = <<Num(35), 0>>
                    THEN {{}, {"UVELMASS"}} ELSE {{}}) :
            /\ Sref = sc[1]
            /\ ds = MissingAt(DatasetOf(op, h, sc[1], sc[2]), flds, 1)
    /\ coords \in CoordsSet
    /\ pt1 = None
    /\ pt2 = None
    /\ section_name = NoName
    /\ maskC = None
    /\ maskW \in {MaskOf(Uniform(m)) : m \in MaskVals} \cup {GivenMaskW}
    /\ maskS \in {MaskOf(Uniform(m)) : m \in MaskVals}
    /\ grid = "llc"
    /\ sign \in Signs
    /\ along_section = FALSE

\* calls of the volume assembler with every flow profile and every section mask
InitVolume ==
    /\ op = "calc_section_vol_trsp"
    /\ pc = "call"
    /\ Sref = Num(35)
    /\ \E h \in FlowProfiles : ds = DatasetOf(op, h, Sref, 0)
    /\ coords \in CoordsSet
    /\ pt1 = None
    /\ pt2 = None
    /\ section_name = NoName
    /\ maskC = None
    /\ maskW \in {MaskOf(m) : m \in MaskProfiles}
    /\ maskS \in {MaskOf(Uniform(m)) : m \in MaskVals}
    /\ grid = "llc"
    /\ sign \in Signs
    /\ along_section = FALSE

\* calls that vary the way the section is given, the grid and the reducer
InitArgs ==
    /\ op \in Assemblers
    /\ pc = "call"
    /\ Sref = Num(35)
    /\ ds = DatasetOf(op, Alt, Sref, 1)
    /\ coords = BaseCoords
    /\ pt1 \in PtArgs1
    /\ pt2 \in PtArgs2
    /\ section_name \in Names
    /\ maskC \in {None, GivenMaskC}
    /\ maskW \in {None, GivenMaskW}
    /\ maskS \in {None, GivenMaskS}
    /\ grid \in Grids
    /\ sign = NoSign
    /\ along_section \in BOOLEAN

\* calls along the section that vary the center mask, the wet-point mask, the
\* cells at which the fields have no value and, for the freshwater assembler,
\* the salinity anomaly
InitAlong ==
    /\ op \in Assemblers
    /\ pc = "call"
    /\ Sref = Num(35)
    /\ \E flds \in {{}, {"UVELMASS", "ADVx_TH", "ADVx_SLT"},
                    {"VVELMASS", "ADVy_TH", "ADVy_SLT"}} :
       \E anom \in (IF op = "calc_section_fw_trsp" THEN {0, 1} ELSE {1}) :
            ds = MissingAt(DatasetOf(op, Alt, Sref, anom), flds, 1)
    /\ coords \in CoordsSet
    /\ pt1 = None
    /\ pt2 = None
    /\ section_name = NoName
    /\ maskC \in {MaskOf(m) : m \in [I -> {0, 1}]}
    /\ maskW = None
    /\ maskS = None
    /\ grid = "llc"
    /\ sign = NoSign
    /\ along_section = TRUE

InitCalc ==
    /\ InitFields \/ InitVolume \/ InitArgs \/ InitAlong
    /\ xfld = None
    /\ yfld = None
    /\ err = NoErr
    /\ ret = None
    /\ lm_calls = <<>>

Finish(r) ==
    /\ err' = r.err
    /\ ret' = r.ret
    /\ ds' = r.ds
    /\ lm_calls' = r.calls
    /\ pc' = "done"
    /\ UnchangedArgs

VolCall ==
    /\ pc = "call"
    /\ op = "calc_section_vol_trsp"
    /\ Finish(calc_section_vol_trsp(ds, pt1, pt2, section_name, maskW, maskS, maskC,
                                    coords, grid, sign, along_section))
HeatCall ==
    /\ pc = "call"
    /\ op = "calc_section_heat_trsp"
    /\ Finish(calc_section_heat_trsp(ds, pt1, pt2, section_name, maskW, maskS, maskC,
                                     coords, grid, sign, along_section))
SaltCall ==
    /\ pc = "call"
    /\ op = "calc_section_salt_trsp"
    /\ Finish(calc_section_salt_trsp(ds, pt1, pt2, section_name, maskW, maskS, maskC,
                                     coords, grid, sign, along_section))
FwCall ==
    /\ pc = "call"
    /\ op = "calc_section_fw_trsp"
    /\ Finish(calc_section_fw_trsp(ds, Sref, pt1, pt2, section_name, maskW, maskS,
                                   maskC, coords, grid, sign, along_section))

NextCalc == VolCall \/ HeatCall \/ SaltCall \/ FwCall
SpecCalc == InitCalc /\ [][NextCalc]_vars

NextDepth == AtDepthCall
SpecDepth == InitDepth /\ [][NextDepth]_vars

(***************************************************************************)
(* Properties of the mask resolver.                                        *)
(***************************************************************************)
\* the three ways of defining a section, read off the arguments of the call
ModeA == section_name # NoName /\ section_name \in KnownSections
ModeB == pt1 # None /\ pt2 # None
ModeC == (maskW # None /\ maskS # None) \/ maskC # None
ModeCount ==
    (IF ModeA THEN 1 ELSE 0) + (IF ModeB THEN 1 ELSE 0) + (IF ModeC THEN 1 ELSE 0)
Parsed == pc = "done" /\ op = "_parse_section_trsp_inputs"

\* C1: when more than one of the modes (a), (b), (c) is active the resolver
\* raises the error of an ambiguous section, returns no masks and does not call
\* get_section_line_masks
C1_Ambiguous ==
    (Parsed /\ ModeCount > 1) =>
        (err = CannotProvide /\ ret = None /\ lm_calls = <<>>)
C1_Witness ==
    Parsed /\ ~ModeA /\ ModeB /\ ModeC /\ err = CannotProvide

\* C2: when none of the modes is active the resolver raises the error of an
\* underspecified section, returns no masks and has not called
\* get_section_line_masks
C2_Underspecified ==
    (Parsed /\ ModeCount = 0) =>
        (err = MustProvide /\ ret = None /\ lm_calls = <<>>)
C2_Witness ==
    /\ Parsed /\ ModeCount = 0 /\ err = MustProvide
    /\ section_name = "my section" /\ pt1 # None /\ maskW # None

\* C3: when only mode (c) is active the resolver returns the three masks as they
\* were supplied, absent ones absent, and does not call get_section_line_masks
C3_MasksPassThrough ==
    (Parsed /\ ModeC /\ ~ModeA /\ ~ModeB) =>
        (err = NoErr /\ ret = <<maskC, maskW, maskS>> /\ lm_calls = <<>>)
C3_Witness ==
    /\ Parsed /\ ModeC /\ ~ModeA /\ ~ModeB
    /\ maskC # None /\ maskW = None /\ maskS # None
    /\ ret = <<maskC, None, maskS>>

\* C4: when only mode (a) or only mode (b) is active the resolver returns the
\* masks of one call of get_section_line_masks, made with the end points of the
\* catalog in mode (a) and with pt1, pt2 in mode (b), and with the grid of the
\* caller
C4_Endpoints == IF ModeA THEN <<DrakePt1, DrakePt2>> ELSE <<pt1, pt2>>
C4_LineMasks ==
    (Parsed /\ ~ModeC /\ ModeCount = 1) =>
        /\ err = NoErr
        /\ lm_calls = << [pt1 |-> C4_Endpoints[1], pt2 |-> C4_Endpoints[2],
                          ds |-> coords, grid |-> grid] >>
        /\ ret = get_section_line_masks(C4_Endpoints[1], C4_Endpoints[2], coords, grid)
C4_Witness ==
    /\ Parsed /\ ModeA /\ ~ModeB /\ ~ModeC
    /\ pt1 = UserPt1 /\ maskW # None /\ grid = "llc"
    /\ Len(lm_calls) = 1 /\ lm_calls[1].pt1 = DrakePt1

(***************************************************************************)
(* Properties of section_trsp_at_depth.                                    *)
(***************************************************************************)
\* equality and order as floating point makes them: false on NaN, the two
\* zeros equal
Eq(a, b) == ~IsNaN(a) /\ ~IsNaN(b) /\ (a = b \/ (IsZero(a) /\ IsZero(b)))
Le(a, b) == ~IsNaN(a) /\ ~IsNaN(b) /\ (Eq(a, b) \/ Gt0(Sub(b, a)))
\* the magnitude of a number, and the spacing of the numbers at 1, 2^-52
AbsV(a) == <<Abs(a[1]), a[2], a[3]>>
Epsilon == Div(Div(Num(1), Num(Pow2(26))), Num(Pow2(26)))
\* a and b differ by no more than n * Epsilon * scale
Near(a, b, n, scale) == Le(AbsV(Sub(a, b)), Mul(Mul(Num(n), Epsilon), scale))

Reduced == pc = "done" /\ op = "section_trsp_at_depth"

\* no edge of the section carries a flux that is exactly zero
NoZeroCrossing ==
    \A t \in T, k \in K, i \in I :
        /\ ~IsZero(maskW[i]) => ~IsZero(Mul(maskW[i], xfld[t][k][i]))
        /\ ~IsZero(maskS[i]) => ~IsZero(Mul(maskS[i], yfld[t][k][i]))

PositivePart ==
    section_trsp_at_depth(xfld, yfld, maskW, maskS, coords, "positive").ret.trsp_z
NegativePart ==
    section_trsp_at_depth(xfld, yfld, maskW, maskS, coords, "negative").ret.trsp_z

\* C5 as stated: without zero crossings the profile of sign = 'positive' plus
\* the profile of sign = 'negative' is the profile of sign = None, at every
\* level and time
C5_ExactPartition ==
    (Reduced /\ sign = NoSign /\ NoZeroCrossing) =>
        With(PositivePart, LAMBDA pos : With(NegativePart, LAMBDA neg :
            \A t \in T, k \in K :
                Eq(ret.trsp_z[t][k], Add(pos[t][k], neg[t][k]))))

\* C5, amended: without zero crossings the profile of sign = 'positive' plus
\* the profile of sign = 'negative' is the profile of sign = None up to the
\* rounding of the sums: at every level and time the two differ by no more
\* than 2 * NI * 2^-52 times the flux through the section counted without
\* direction, the positive part minus the negative part
C5_SignPartition ==
    (Reduced /\ sign = NoSign /\ NoZeroCrossing) =>
        With(PositivePart, LAMBDA pos : With(NegativePart, LAMBDA neg :
            \A t \in T, k \in K :
                Near(ret.trsp_z[t][k], Add(pos[t][k], neg[t][k]),
                     2 * NI, Sub(pos[t][k], neg[t][k]))))
C5_Witness ==
    /\ Reduced /\ sign = NoSign /\ NoZeroCrossing
    /\ With(PositivePart, LAMBDA pos : With(NegativePart, LAMBDA neg :
            \E t \in T, k \in K :
                /\ ~IsZero(pos[t][k])
                /\ ~IsZero(neg[t][k])
                /\ ~IsZero(ret.trsp_z[t][k])
                /\ ~Eq(ret.trsp_z[t][k], Add(pos[t][k], neg[t][k]))))

ZeroMasks == \A i \in I : IsZero(maskW[i]) /\ IsZero(maskS[i])

\* C6: with masks that are zero at every edge trsp_z is the number zero, never
\* missing, at every level and time, whatever the fields, the sign and the
\* wet-point masks
C6_ZeroMasks ==
    (Reduced /\ ZeroMasks) =>
        (err = NoErr /\ \A t \in T, k \in K : IsZero(ret.trsp_z[t][k]))
C6_Witness ==
    /\ Reduced /\ ZeroMasks /\ "maskW" \in DOMAIN coords /\ sign = "positive"
    /\ \A i \in I : ~IsZero(xfld[1][1][i]) /\ ~IsZero(yfld[1][1][i])
    /\ IsZero(ret.trsp_z[1][NK])

(***************************************************************************)
(* Properties of the assemblers.                                           *)
(***************************************************************************)
Called == pc = "done" /\ op \in Assemblers
Succeeded == Called /\ err = NoErr

\* the per-depth field and the depth-summed field of each assembler
TrspPairs ==
    IF op = "calc_section_vol_trsp" THEN {<<"vol_trsp_z", "vol_trsp">>}
    ELSE IF op = "calc_section_heat_trsp" THEN {<<"heat_trsp_z", "heat_trsp">>}
    ELSE IF op = "calc_section_salt_trsp" THEN {<<"salt_trsp_z", "salt_trsp">>}
    ELSE {<<"fw_trsp_adv_z", "fw_trsp_adv">>, <<"fw_trsp_dif_z", "fw_trsp_dif">>}

\* f[1] + ... + f[n]
RECURSIVE SumTo(_, _)
SumTo(f, n) == IF n = 0 THEN Zero ELSE Add(SumTo(f, n - 1), f[n])

\* C7 as stated: in depth-level mode the depth-integrated transport an
\* assembler returns is the sum over the levels of the per-depth transport it
\* returns, at every time step, and both carry the same unit
C7_ExactSum ==
    (Succeeded /\ ~along_section) =>
        \A pr \in TrspPairs :
            /\ ret.units[pr[1]] = ret.units[pr[2]]
            /\ \A t \in T : Eq(ret.data[pr[2]][t], SumTo(ret.data[pr[1]][t], NK))

\* C7, amended: in depth-level mode the depth-integrated transport an assembler
\* returns is the sum over the levels of the per-depth transport it returns up
\* to rounding: at every time step the two differ by no more than
\* 2 * NK * 2^-52 times the sum of the magnitudes of the per-depth transports;
\* both carry the same unit
C7_DepthSum ==
    (Succeeded /\ ~along_section) =>
        \A pr \in TrspPairs :
            /\ ret.units[pr[1]] = ret.units[pr[2]]
            /\ \A t \in T :
                    Near(ret.data[pr[2]][t], SumTo(ret.data[pr[1]][t], NK), 2 * NK,
                         SumTo([k \in K |-> AbsV(ret.data[pr[1]][t][k])], NK))
C7_Witness ==
    /\ Succeeded /\ ~along_section /\ op = "calc_section_vol_trsp"
    /\ ~IsZero(ret.data["vol_trsp"][1])
    /\ ret.data["vol_trsp_z"][1][1] # ret.data["vol_trsp_z"][1][NK]
    /\ ~Eq(ret.data["vol_trsp"][1], SumTo(ret.data["vol_trsp_z"][1], NK))

\* the values of field f of the result, over every axis it has
Entries(f) ==
    LET row(x) == IF has_dim(ret.dims[f], "ij") THEN Range(x) ELSE {x}
    IN  IF has_dim(ret.dims[f], "k")
        THEN UNION {row(ret.data[f][t][k]) : t \in T, k \in K}
        ELSE UNION {row(ret.data[f][t]) : t \in T}
AdvEntries == Entries("fw_trsp_adv_z") \cup Entries("fw_trsp_adv")
Finite(a) == ~IsNaN(a) /\ ~IsInf(a)
\* the volume flux (vel + star) * len * drF through the west and the south
\* edge of cell i, star the eddy-induced velocity
FluxX(t, k, i) ==
    Mul(Mul(Add(ds["UVELMASS"][t][k][i],
                Div(diff_Z(ds["GM_PsiX"], t, k, i), coords.drF[k])),
            coords.dyG[i]), coords.drF[k])
FluxY(t, k, i) ==
    Mul(Mul(Add(ds["VVELMASS"][t][k][i],
                Div(diff_Z(ds["GM_PsiY"], t, k, i), coords.drF[k])),
            coords.dxG[i]), coords.drF[k])
FwRun == Succeeded /\ op = "calc_section_fw_trsp"
SaltIsSref == \A t \in T, k \in K, i \in I : ds["SALT"][t][k][i] = Sref

\* C8 as stated: when SALT is Sref at every cell the advective freshwater
\* fluxes ADVx_FW and ADVy_FW are zero at every edge, whatever the velocity,
\* and fw_trsp_adv_z and fw_trsp_adv are zero at every level and time
C8_AlwaysZero ==
    (FwRun /\ SaltIsSref) =>
        /\ \A t \in T, k \in K, i \in I :
                IsZero(ds["ADVx_FW"][t][k][i]) /\ IsZero(ds["ADVy_FW"][t][k][i])
        /\ \A e \in AdvEntries : IsZero(e)

\* C8, amended: when SALT is Sref at every cell the advective freshwater flux
\* through an edge is zero where the volume flux through it is finite and
\* missing where it is not; in depth-level mode fw_trsp_adv_z and fw_trsp_adv
\* are zero at every level and time, and along the section each of their values
\* is zero or missing
C8_NoAnomaly ==
    (FwRun /\ SaltIsSref) =>
        /\ \A t \in T, k \in K, i \in I :
            /\ IF Finite(FluxX(t, k, i)) THEN IsZero(ds["ADVx_FW"][t][k][i])
               ELSE IsNaN(ds["ADVx_FW"][t][k][i])
            /\ IF Finite(FluxY(t, k, i)) THEN IsZero(ds["ADVy_FW"][t][k][i])
               ELSE IsNaN(ds["ADVy_FW"][t][k][i])
        /\ ~along_section =>
                \A t \in T :
                    /\ IsZero(ret.data["fw_trsp_adv"][t])
                    /\ \A k \in K : IsZero(ret.data["fw_trsp_adv_z"][t][k])
        /\ along_section => \A e \in AdvEntries : IsZero(e) \/ IsNaN(e)
\* a call along the section with a velocity that has no value at an edge: the
\* advective flux is missing there and zero at an edge with a volume flux that
\* is not zero, and the advective transport has a value, zero
C8_Witness ==
    /\ FwRun /\ SaltIsSref /\ along_section
    /\ \E i \in I : IsNaN(ds["UVELMASS"][1][1][i]) /\ IsNaN(ds["ADVx_FW"][1][1][i])
    /\ \E i \in I : /\ Finite(FluxX(1, 1, i)) /\ ~IsZero(FluxX(1, 1, i))
                    /\ IsZero(ds["ADVx_FW"][1][1][i])
    /\ \E e \in AdvEntries : IsZero(e)

\* C9: a call of an assembler leaves the dataset, the masks and the coordinates
\* of the caller as they were
C9_PureFunctional ==
    [][(pc = "call" /\ pc' = "done" /\ op \in Assemblers) =>
            /\ ds' = ds
            /\ coords' = coords
            /\ <<maskC', maskW', maskS'>> = <<maskC, maskW, maskS>>]_vars

\* the volume flux through the west and the south edge of cell i
VolX(t, k, i) ==
    Mul(Mul(Mul(ds["UVELMASS"][t][k][i], coords.drF[k]), coords.dyG[i]),
        ret.data["maskW"][i])
VolY(t, k, i) ==
    Mul(Mul(Mul(ds["VVELMASS"][t][k][i], coords.drF[k]), coords.dxG[i]),
        ret.data["maskS"][i])
\* an edge is dry when the coordinates carry a wet-point mask that is zero there
Dry(name, k, i) == name \in DOMAIN coords /\ IsZero(coords[name][k][i])
VolRun == Succeeded /\ op = "calc_section_vol_trsp" /\ ~along_section /\ sign = NoSign

\* a flow of 1 m/s through the single edge i of the section, of mask +1,
\* thickness 10 m and length 1000 m
UnitFlow(t, k, i) ==
    /\ ds["UVELMASS"][t][k][i] = Num(1)
    /\ coords.drF[k] = Num(10)
    /\ coords.dyG[i] = Num(1000)
    /\ ret.data["maskW"][i] = Num(1)
    /\ \A j \in I \ {i} : IsZero(ret.data["maskW"][j])
    /\ \A j \in I : IsZero(ret.data["maskS"][j])
OneHundredth == Div(Num(1), Num(100))

\* C10 as stated: the per-depth volume transport is 1e-6 times the sum over all
\* edges of UVELMASS*drF*dyG*maskW plus VVELMASS*drF*dxG*maskS, and the unit
\* flow gives 0.01 Sv
C10_AllEdges ==
    VolRun =>
        \A t \in T, k \in K :
            /\ Eq(ret.data["vol_trsp_z"][t][k],
                  Mul(METERS_CUBED_TO_SVERDRUPS,
                      Add(SumTo([i \in I |-> VolX(t, k, i)], NI),
                          SumTo([i \in I |-> VolY(t, k, i)], NI))))
            /\ \A i \in I : UnitFlow(t, k, i) =>
                  Eq(ret.data["vol_trsp_z"][t][k], OneHundredth)

\* C10, amended: the sum runs over the edges that no wet-point mask of the
\* coordinates marks dry, and the unit flow gives 0.01 Sv through a wet edge
C10_WetEdges ==
    VolRun =>
        \A t \in T, k \in K :
            /\ Eq(ret.data["vol_trsp_z"][t][k],
                  Mul(METERS_CUBED_TO_SVERDRUPS,
                      Add(SumTo([i \in I |-> IF Dry("maskW", k, i) THEN Zero
                                             ELSE VolX(t, k, i)], NI),
                          SumTo([i \in I |-> IF Dry("maskS", k, i) THEN Zero
                                             ELSE VolY(t, k, i)], NI))))
            /\ \A i \in I : (UnitFlow(t, k, i) /\ ~Dry("maskW", k, i)) =>
                  Eq(ret.data["vol_trsp_z"][t][k], OneHundredth)
C10_Witness ==
    /\ VolRun /\ "maskW" \in DOMAIN coords
    /\ UnitFlow(1, 1, 1)
    /\ Eq(ret.data["vol_trsp_z"][1][1], OneHundredth)

\* the masks the section of a successful call resolves to
ResolvedMasks ==
    IF ModeC THEN <<maskC, maskW, maskS>>
    ELSE get_section_line_masks(C4_Endpoints[1], C4_Endpoints[2], coords, grid)

\* C11: the result of a successful call of an assembler holds the resolved
\* maskW and maskS exactly when along_section is false, and the label 'name',
\* equal to section_name, exactly when section_name was given, predefined or not
C11_MasksAndName ==
    Succeeded =>
        /\ ("maskW" \in DOMAIN ret.data) <=> ~along_section
        /\ ("maskS" \in DOMAIN ret.data) <=> ~along_section
        /\ ~along_section =>
                /\ ret.data["maskW"] = ResolvedMasks[2]
                /\ ret.data["maskS"] = ResolvedMasks[3]
        /\ ("name" \in DOMAIN ret.attrs) <=> section_name # NoName
        /\ section_name # NoName => ret.attrs["name"] = section_name
C11_Witness ==
    /\ Succeeded /\ along_section /\ op = "calc_section_fw_trsp"
    /\ section_name = "my section" /\ ~ModeA /\ maskW # None
    /\ "maskW" \notin DOMAIN ret.data
    /\ ret.attrs["name"] = "my section"

====
